---------------------------- MODULE Spec2Model ----------------------------
(***************************************************************************)
(* Model of samply/beam `shared`:                                          *)
(*   - config_shared.rs : init_crypto_for_proxy, load_crypto_for_proxy,    *)
(*                        asn_str_to_vault_str                             *)
(*   - sockets.rs       : MsgSocketRequest<State> and its conversions      *)
(*                                                                         *)
(* Three state machines share the variables of this module:                *)
(*   Spec        concurrent callers of init_crypto_for_proxy               *)
(*   SpecSerial  the insertion loop of asn_str_to_vault_str, step by step  *)
(*   SpecMsg     chains of envelope conversions                            *)
(*                                                                         *)
(* Option<T> is modelled as a sequence of length <= 1: <<>> is None and    *)
(* <<x>> is Some(x).  A Rust String is a sequence of one-character strings.*)
(***************************************************************************)
EXTENDS Integers, Sequences, FiniteSets, TLC

VARIABLES
    \* ---- config_shared.rs: process state and one frame per caller ----
    CONFIG_SHARED_CRYPTO,   \* the process-wide slot: Option<ConfigCrypto>
    pc,                     \* per caller: position in init_crypto_for_proxy
    cli_args,               \* per caller: Option<CliArgs> (line 86)
    privkey_pem,            \* per caller: Option<text> (lines 97-99)
    privkey_rsa,            \* per caller: Option<key> (lines 100-102)
    privkey_rs256,          \* per caller: Option<RS256KeyPair> (lines 103-104, 114)
    public,                 \* per caller: Option<CryptoPublicPortion> (lines 108-112)
    tried,                  \* per caller: the key parsers called, in call order
    lookups,                \* per caller: number of directory lookups made
    loaded,                 \* per caller: outcome of load_crypto_for_proxy
    result,                 \* per caller: outcome of init_crypto_for_proxy
    \* ---- asn_str_to_vault_str, step by step ----
    s_asn,                  \* the serial given to the formatter (bytes)
    s_a,                    \* the string `a`
    s_i,                    \* the index `i`
    s_pc,                   \* position in asn_str_to_vault_str
    \* ---- sockets.rs: a chain of conversions of one envelope ----
    msg,                    \* the current envelope
    envs,                   \* every envelope of the chain, oldest first
    ops,                    \* the conversions applied, oldest first
    cipher                  \* the encryption in use: plaintext -> blob

cryptoVars == <<CONFIG_SHARED_CRYPTO, pc, cli_args, privkey_pem, privkey_rsa,
                privkey_rs256, public, tried, lookups, loaded, result>>
serialVars == <<s_asn, s_a, s_i, s_pc>>
msgVars == <<msg, envs, ops, cipher>>
vars == <<cryptoVars, serialVars, msgVars>>

---------------------------------------------------------------------------
(* Bounds of the model *)

NumCallers == 2
MaxSerialBytes == 3
MaxChain == 3

Callers == 1..NumCallers

---------------------------------------------------------------------------
(* Option and Result *)

None == <<>>
Some(x) == <<x>>

Pending == [kind |-> "Pending", what |-> "", ok |-> <<>>]
Ok(v) == [kind |-> "Ok", what |-> "", ok |-> <<v>>]
Err(e) == [kind |-> "Err", what |-> e, ok |-> <<>>]
Panic(m) == [kind |-> "Panic", what |-> m, ok |-> <<>>]

---------------------------------------------------------------------------
(* Strings: hexadecimal rendering and the serial formatter *)

HexUpper == <<"0","1","2","3","4","5","6","7","8","9","A","B","C","D","E","F">>

\* Two upper-case digits per byte, most significant byte first.
RECURSIVE BytesToHex(_)
BytesToHex(bs) ==
    IF bs = <<>> THEN <<>>
    ELSE <<HexUpper[(Head(bs) \div 16) + 1], HexUpper[(Head(bs) % 16) + 1]>>
         \o BytesToHex(Tail(bs))

\* BigNum::to_hex_str (OpenSSL BN_bn2hex): a big number is its sign and the
\* bytes of its magnitude; zero renders as "0", a negative number as '-' and
\* then the digits of its magnitude.
to_hex_str(bn) ==
    IF bn.mag = <<>> THEN <<"0">>
    ELSE (IF bn.neg THEN <<"-">> ELSE <<>>) \o BytesToHex(bn.mag)

\* bytes without their leading zero bytes
RECURSIVE StripLeadingZeros(_)
StripLeadingZeros(bs) ==
    IF bs # <<>> /\ Head(bs) = 0 THEN StripLeadingZeros(Tail(bs)) ELSE bs

\* the one's complement of every byte
OnesComplement(bs) == [k \in 1..Len(bs) |-> 255 - bs[k]]

\* bytes as a big-endian number plus one, the carry running to the front
RECURSIVE PlusOne(_)
PlusOne(bs) ==
    IF bs = <<>> THEN <<1>>
    ELSE IF bs[Len(bs)] = 255
         THEN PlusOne(SubSeq(bs, 1, Len(bs) - 1)) \o <<0>>
         ELSE SubSeq(bs, 1, Len(bs) - 1) \o <<bs[Len(bs)] + 1>>

\* Asn1IntegerRef::to_bn: the serial's value as a big number.  The content
\* bytes of an INTEGER are two's complement: a first byte of 128 or more makes
\* the value negative, its magnitude the complement of the bytes plus one.
to_bn(asn) ==
    IF asn # <<>> /\ Head(asn) >= 128
    THEN [neg |-> TRUE, mag |-> StripLeadingZeros(PlusOne(OnesComplement(asn)))]
    ELSE [neg |-> FALSE, mag |-> StripLeadingZeros(asn)]

\* str::to_ascii_lowercase on one character
AsciiLowerChar(ch) ==
    CASE ch = "A" -> "a" [] ch = "B" -> "b" [] ch = "C" -> "c"
      [] ch = "D" -> "d" [] ch = "E" -> "e" [] ch = "F" -> "f"
      [] OTHER -> ch

to_ascii_lowercase(s) == [k \in 1..Len(s) |-> AsciiLowerChar(s[k])]

\* String::insert(idx, ch) with a 0-based index idx <= len
StringInsert(a, idx, ch) ==
    SubSeq(a, 1, idx) \o <<ch>> \o SubSeq(a, idx + 1, Len(a))

FirstColon == 2
ColonStride == 3

\* mutant: the index advances by 2, not counting the inserted ':'
InsertStepStride2(a, i) == [a |-> StringInsert(a, i, ":"), i |-> i + 2]

\* one iteration of the body of `while i < a.len()`
InsertStep(a, i) == [a |-> StringInsert(a, i, ":"), i |-> i + ColonStride]

\* the whole loop of lines 132-136
RECURSIVE InsertLoop(_, _)
InsertLoop(a, i) ==
    IF i < Len(a) THEN InsertLoop(InsertStep(a, i).a, InsertStep(a, i).i) ELSE a

asn_str_to_vault_str(asn) ==
    InsertLoop(to_ascii_lowercase(to_hex_str(to_bn(asn))), FirstColon)

---------------------------------------------------------------------------
(* Inputs of the bootstrap: key files, command-line arguments, the directory *)

\* The private keys of the sample key files.
Keys == {"key-a", "key-b"}

\* The text of a key file: its PEM encoding, the key it holds and whether
\* white space surrounds the text (every sample file ends in a line break).
FileTexts ==
    {[enc |-> e, key |-> k, ws |-> TRUE] : e \in {"pkcs1", "pkcs8"}, k \in Keys}
    \cup {[enc |-> "garbage", key |-> "", ws |-> TRUE]}

\* What the path privkey_file holds: None when the file cannot be read.
KeyFiles == {None} \cup {Some(t) : t \in FileTexts}

ValidProxyIds == {"proxy1.broker"}
ProxyIdArgs == {None, Some("proxy1.broker"), Some("no broker part")}

CliArgs == [privkey_file : KeyFiles, proxy_id : ProxyIdArgs]

\* A certificate: its ASN.1 serial (the content bytes of the INTEGER, two's
\* complement, so <<255>> is the serial -1) and its subject name entries, each the UTF-8 text of the entry
\* or None when the entry's data does not convert to UTF-8.
Certificates ==
    { [serial |-> <<10>>, subject |-> <<Some("proxy1.broker")>>],
      [serial |-> <<0, 188, 68>>, subject |-> <<Some("proxy1.broker")>>],
      [serial |-> <<68, 14>>, subject |-> <<None>>],
      [serial |-> <<255>>, subject |-> <<>>] }

CryptoPublicPortion == [cert : Certificates, pubkey : {"pubkey.pem"}]

\* The answers get_cert_and_client_by_cname_as_pemstr can give.
DirectoryAnswers == {None} \cup {Some(p) : p \in CryptoPublicPortion}

---------------------------------------------------------------------------
(* Library calls of load_crypto_for_proxy *)

\* std::fs::read_to_string
read_to_string(file) == IF file = None THEN Err("io") ELSE Ok(file[1])

\* str::trim
trim(text) == [text EXCEPT !.ws = FALSE]

\* RsaPrivateKey::from_pkcs1_pem / from_pkcs8_pem: the key, or None on a parse
\* error; a PEM block is expected at the start of the text (line 99 trims it)
from_pkcs1_pem(text) == IF text.enc = "pkcs1" /\ ~text.ws THEN Some(text.key) ELSE None
from_pkcs8_pem(text) == IF text.enc = "pkcs8" /\ ~text.ws THEN Some(text.key) ELSE None

\* RS256KeyPair::from_pem: what the call may return, None on an error.  The
\* call is one library call whose code is not part of config_shared.rs: which
\* texts it takes, and how, is not decided here, so it may fail on any text
\* (line 104 handles that); a key pair is known by the text it was read from
\* and carries no key id.
from_pem(text) ==
    {None} \cup (IF text.enc \in {"pkcs1", "pkcs8"}
                 THEN {Some([from_pem |-> text, key_id |-> None])}
                 ELSE {})

\* RS256KeyPair::with_key_id
with_key_id(kp, id) == [kp EXCEPT !.key_id = Some(id)]

\* ProxyId::new
ProxyIdNew(s) == IF s \in ValidProxyIds THEN Ok(s) ELSE Err("InvalidBeamId")

---------------------------------------------------------------------------
(* init_crypto_for_proxy / load_crypto_for_proxy, one frame per caller *)

InitCrypto ==
    /\ CONFIG_SHARED_CRYPTO = None
    /\ pc = [c \in Callers |-> "idle"]
    /\ cli_args = [c \in Callers |-> None]
    /\ privkey_pem = [c \in Callers |-> None]
    /\ privkey_rsa = [c \in Callers |-> None]
    /\ privkey_rs256 = [c \in Callers |-> None]
    /\ public = [c \in Callers |-> None]
    /\ tried = [c \in Callers |-> <<>>]
    /\ lookups = [c \in Callers |-> 0]
    /\ loaded = [c \in Callers |-> Pending]
    /\ result = [c \in Callers |-> Pending]

\* load_crypto_for_proxy returns Err(e) or panics; the `?` of line 87 hands an
\* error on as the result of init_crypto_for_proxy.
LoadFails(c, r) ==
    /\ loaded' = [loaded EXCEPT ![c] = r]
    /\ result' = [result EXCEPT ![c] = r]
    /\ pc' = [pc EXCEPT ![c] = "done"]

\* line 86: CliArgs::parse()
CliParse(c) ==
    /\ pc[c] = "idle"
    /\ \E args \in CliArgs : cli_args' = [cli_args EXCEPT ![c] = Some(args)]
    /\ pc' = [pc EXCEPT ![c] = "read"]
    /\ UNCHANGED <<CONFIG_SHARED_CRYPTO, privkey_pem, privkey_rsa, privkey_rs256,
                   public, tried, lookups, loaded, result>>
    /\ UNCHANGED <<serialVars, msgVars>>

\* lines 97-99: read the key file and trim it
ReadKeyFile(c) ==
    /\ pc[c] = "read"
    /\ LET r == read_to_string(cli_args[c][1].privkey_file) IN
       IF r.kind = "Err"
       THEN /\ LoadFails(c, Err("ConfigurationFailed"))
            /\ UNCHANGED privkey_pem
       ELSE /\ privkey_pem' = [privkey_pem EXCEPT ![c] = Some(trim(r.ok[1]))]
            /\ pc' = [pc EXCEPT ![c] = "parse_rsa"]
            /\ UNCHANGED <<loaded, result>>
    /\ UNCHANGED <<CONFIG_SHARED_CRYPTO, cli_args, privkey_rsa, privkey_rs256,
                   public, tried, lookups>>
    /\ UNCHANGED <<serialVars, msgVars>>

\* mutant: a key that does not parse is unwrapped, not mapped to an error
ParseRsaUnwrap(c) ==
    /\ pc[c] = "parse_rsa"
    /\ LET pem == privkey_pem[c][1]
           first == from_pkcs1_pem(pem)
           key == IF first # None THEN first ELSE from_pkcs8_pem(pem)
       IN
       /\ tried' = [tried EXCEPT ![c] =
                      IF first # None THEN <<"pkcs1">> ELSE <<"pkcs1", "pkcs8">>]
       /\ IF key = None
          THEN /\ LoadFails(c, Panic("called Result::unwrap() on an Err value"))
               /\ UNCHANGED privkey_rsa
          ELSE /\ privkey_rsa' = [privkey_rsa EXCEPT ![c] = key]
               /\ pc' = [pc EXCEPT ![c] = "parse_rs256"]
               /\ UNCHANGED <<loaded, result>>
    /\ UNCHANGED <<CONFIG_SHARED_CRYPTO, cli_args, privkey_pem, privkey_rs256,
                   public, lookups>>
    /\ UNCHANGED <<serialVars, msgVars>>

\* mutant: no PKCS#8 fallback
ParseRsaPkcs1Only(c) ==
    /\ pc[c] = "parse_rsa"
    /\ LET key == from_pkcs1_pem(privkey_pem[c][1]) IN
       /\ tried' = [tried EXCEPT ![c] = <<"pkcs1">>]
       /\ IF key = None
          THEN /\ LoadFails(c, Err("ConfigurationFailed"))
               /\ UNCHANGED privkey_rsa
          ELSE /\ privkey_rsa' = [privkey_rsa EXCEPT ![c] = key]
               /\ pc' = [pc EXCEPT ![c] = "parse_rs256"]
               /\ UNCHANGED <<loaded, result>>
    /\ UNCHANGED <<CONFIG_SHARED_CRYPTO, cli_args, privkey_pem, privkey_rs256,
                   public, lookups>>
    /\ UNCHANGED <<serialVars, msgVars>>

\* lines 100-102: the raw private key, PKCS#1 first, PKCS#8 when that fails
ParseRsa(c) ==
    /\ pc[c] = "parse_rsa"
    /\ LET pem == privkey_pem[c][1]
           first == from_pkcs1_pem(pem)
           key == IF first # None THEN first ELSE from_pkcs8_pem(pem)
       IN
       /\ tried' = [tried EXCEPT ![c] =
                      IF first # None THEN <<"pkcs1">> ELSE <<"pkcs1", "pkcs8">>]
       /\ IF key = None
          THEN /\ LoadFails(c, Err("ConfigurationFailed"))
               /\ UNCHANGED privkey_rsa
          ELSE /\ privkey_rsa' = [privkey_rsa EXCEPT ![c] = key]
               /\ pc' = [pc EXCEPT ![c] = "parse_rs256"]
               /\ UNCHANGED <<loaded, result>>
    /\ UNCHANGED <<CONFIG_SHARED_CRYPTO, cli_args, privkey_pem, privkey_rs256,
                   public, lookups>>
    /\ UNCHANGED <<serialVars, msgVars>>

\* lines 103-104: the signing key pair, by one call of RS256KeyPair::from_pem
ParseRs256(c) ==
    /\ pc[c] = "parse_rs256"
    /\ tried' = [tried EXCEPT ![c] = Append(@, "from_pem")]
    /\ \E kp \in from_pem(privkey_pem[c][1]) :
         IF kp = None
         THEN /\ LoadFails(c, Err("ConfigurationFailed"))
              /\ UNCHANGED privkey_rs256
         ELSE /\ privkey_rs256' = [privkey_rs256 EXCEPT ![c] = kp]
              /\ pc' = [pc EXCEPT ![c] = "proxy_id"]
              /\ UNCHANGED <<loaded, result>>
    /\ UNCHANGED <<CONFIG_SHARED_CRYPTO, cli_args, privkey_pem, privkey_rsa,
                   public, lookups>>
    /\ UNCHANGED <<serialVars, msgVars>>

\* mutant: a missing proxy id is an error value (ok_or(..)?), not a panic
RequireProxyIdRecoverable(c) ==
    /\ pc[c] = "proxy_id"
    /\ LET arg == cli_args[c][1].proxy_id IN
       IF arg = None
       THEN LoadFails(c, Err("ConfigurationFailed"))
       ELSE IF ProxyIdNew(arg[1]).kind = "Err"
       THEN LoadFails(c, Err(ProxyIdNew(arg[1]).what))
       ELSE /\ pc' = [pc EXCEPT ![c] = "lookup"]
            /\ UNCHANGED <<loaded, result>>
    /\ UNCHANGED <<CONFIG_SHARED_CRYPTO, cli_args, privkey_pem, privkey_rsa,
                   privkey_rs256, public, tried, lookups>>
    /\ UNCHANGED <<serialVars, msgVars>>

\* lines 105-107: the proxy id must be set (expect) and must be a proxy id (?)
RequireProxyId(c) ==
    /\ pc[c] = "proxy_id"
    /\ LET arg == cli_args[c][1].proxy_id IN
       IF arg = None
       THEN LoadFails(c, Panic("load_crypto() has been called without setting a Proxy ID"))
       ELSE IF ProxyIdNew(arg[1]).kind = "Err"
       THEN LoadFails(c, Err(ProxyIdNew(arg[1]).what))
       ELSE /\ pc' = [pc EXCEPT ![c] = "lookup"]
            /\ UNCHANGED <<loaded, result>>
    /\ UNCHANGED <<CONFIG_SHARED_CRYPTO, cli_args, privkey_pem, privkey_rsa,
                   privkey_rs256, public, tried, lookups>>
    /\ UNCHANGED <<serialVars, msgVars>>

\* mutant: no answer from the directory is reported as ConfigurationFailed
LookupConfigurationFailed(c) ==
    /\ pc[c] = "lookup"
    /\ lookups' = [lookups EXCEPT ![c] = @ + 1]
    /\ \E answer \in DirectoryAnswers :
         IF answer = None
         THEN /\ LoadFails(c, Err("ConfigurationFailed"))
              /\ UNCHANGED public
         ELSE /\ public' = [public EXCEPT ![c] = answer]
              /\ pc' = [pc EXCEPT ![c] = "compose"]
              /\ UNCHANGED <<loaded, result>>
    /\ UNCHANGED <<CONFIG_SHARED_CRYPTO, cli_args, privkey_pem, privkey_rsa,
                   privkey_rs256, tried>>
    /\ UNCHANGED <<serialVars, msgVars>>

\* mutant: the keys are put in the slot before the directory's answer is looked at
LookupPublishingEarly(c) ==
    /\ pc[c] = "lookup"
    /\ lookups' = [lookups EXCEPT ![c] = @ + 1]
    /\ \E answer \in DirectoryAnswers :
         IF answer = None
         THEN /\ LoadFails(c, Err("SignEncryptError"))
              /\ CONFIG_SHARED_CRYPTO' =
                   IF CONFIG_SHARED_CRYPTO = None
                   THEN Some([privkey_rs256 |-> privkey_rs256[c][1],
                              privkey_rsa |-> privkey_rsa[c][1],
                              public |-> None])
                   ELSE CONFIG_SHARED_CRYPTO
              /\ UNCHANGED public
         ELSE /\ public' = [public EXCEPT ![c] = answer]
              /\ pc' = [pc EXCEPT ![c] = "compose"]
              /\ UNCHANGED <<CONFIG_SHARED_CRYPTO, loaded, result>>
    /\ UNCHANGED <<cli_args, privkey_pem, privkey_rsa, privkey_rs256, tried>>
    /\ UNCHANGED <<serialVars, msgVars>>

\* lines 108-112: the directory lookup, the one await of the bootstrap
Lookup(c) ==
    /\ pc[c] = "lookup"
    /\ lookups' = [lookups EXCEPT ![c] = @ + 1]
    /\ \E answer \in DirectoryAnswers :
         IF answer = None
         THEN /\ LoadFails(c, Err("SignEncryptError"))
              /\ UNCHANGED public
         ELSE /\ public' = [public EXCEPT ![c] = answer]
              /\ pc' = [pc EXCEPT ![c] = "compose"]
              /\ UNCHANGED <<loaded, result>>
    /\ UNCHANGED <<CONFIG_SHARED_CRYPTO, cli_args, privkey_pem, privkey_rsa,
                   privkey_rs256, tried>>
    /\ UNCHANGED <<serialVars, msgVars>>

\* mutant: the key id is the hex serial without the ':' grouping
ComposeIdentityRawSerial(c) ==
    /\ pc[c] = "compose"
    /\ LET serial == to_ascii_lowercase(to_hex_str(to_bn(public[c][1].cert.serial)))
           keypair == with_key_id(privkey_rs256[c][1], serial)
           config == [privkey_rs256 |-> keypair,
                      privkey_rsa |-> privkey_rsa[c][1],
                      public |-> public[c][1]]
       IN
       /\ privkey_rs256' = [privkey_rs256 EXCEPT ![c] = Some(keypair)]
       /\ loaded' = [loaded EXCEPT ![c] = Ok(config)]
    /\ pc' = [pc EXCEPT ![c] = "publish"]
    /\ UNCHANGED <<CONFIG_SHARED_CRYPTO, cli_args, privkey_pem, privkey_rsa,
                   public, tried, lookups, result>>
    /\ UNCHANGED <<serialVars, msgVars>>

\* lines 113-120: the key id from the certificate's serial, and the identity
ComposeIdentity(c) ==
    /\ pc[c] = "compose"
    /\ LET serial == asn_str_to_vault_str(public[c][1].cert.serial)
           keypair == with_key_id(privkey_rs256[c][1], serial)
           config == [privkey_rs256 |-> keypair,
                      privkey_rsa |-> privkey_rsa[c][1],
                      public |-> public[c][1]]
       IN
       /\ privkey_rs256' = [privkey_rs256 EXCEPT ![c] = Some(keypair)]
       /\ loaded' = [loaded EXCEPT ![c] = Ok(config)]
    /\ pc' = [pc EXCEPT ![c] = "publish"]
    /\ UNCHANGED <<CONFIG_SHARED_CRYPTO, cli_args, privkey_pem, privkey_rsa,
                   public, tried, lookups, result>>
    /\ UNCHANGED <<serialVars, msgVars>>

\* OnceCell::set: the slot after the call, and whether the call returned Ok
OnceCellSet(cell, value) ==
    IF cell = None THEN [cell |-> Some(value), is_err |-> FALSE]
                   ELSE [cell |-> cell, is_err |-> TRUE]

\* mutant: the result of set is not looked at; the call returns Ok
PublishIgnoringSetError(c) ==
    /\ pc[c] = "publish"
    /\ LET crypto == loaded[c].ok[1]
           serial == to_hex_str(to_bn(crypto.public.cert.serial))
           entries == crypto.public.cert.subject
           set == OnceCellSet(CONFIG_SHARED_CRYPTO, crypto)
       IN
       IF entries = <<>>
       THEN /\ result' = [result EXCEPT ![c] = Panic("called Option::unwrap() on a None value")]
            /\ UNCHANGED CONFIG_SHARED_CRYPTO
       ELSE IF entries[1] = None
       THEN /\ result' = [result EXCEPT ![c] = Err("ErrorStack")]
            /\ UNCHANGED CONFIG_SHARED_CRYPTO
       ELSE /\ CONFIG_SHARED_CRYPTO' = set.cell
            /\ result' = [result EXCEPT ![c] = Ok(<<serial, entries[1][1]>>)]
    /\ pc' = [pc EXCEPT ![c] = "done"]
    /\ UNCHANGED <<cli_args, privkey_pem, privkey_rsa, privkey_rs256, public,
                   tried, lookups, loaded>>
    /\ UNCHANGED <<serialVars, msgVars>>

\* lines 88-93: serial, cname, then the check-and-set of the slot
Publish(c) ==
    /\ pc[c] = "publish"
    /\ LET crypto == loaded[c].ok[1]
           serial == to_hex_str(to_bn(crypto.public.cert.serial))
           entries == crypto.public.cert.subject
           set == OnceCellSet(CONFIG_SHARED_CRYPTO, crypto)
       IN
       IF entries = <<>>
       THEN /\ result' = [result EXCEPT ![c] = Panic("called Option::unwrap() on a None value")]
            /\ UNCHANGED CONFIG_SHARED_CRYPTO
       ELSE IF entries[1] = None
       THEN /\ result' = [result EXCEPT ![c] = Err("ErrorStack")]
            /\ UNCHANGED CONFIG_SHARED_CRYPTO
       ELSE /\ CONFIG_SHARED_CRYPTO' = set.cell
            /\ result' = [result EXCEPT ![c] =
                 IF set.is_err
                 THEN Panic("Tried to initialize crypto twice (init_crypto())")
                 ELSE Ok(<<serial, entries[1][1]>>)]
    /\ pc' = [pc EXCEPT ![c] = "done"]
    /\ UNCHANGED <<cli_args, privkey_pem, privkey_rsa, privkey_rs256, public,
                   tried, lookups, loaded>>
    /\ UNCHANGED <<serialVars, msgVars>>

---------------------------------------------------------------------------
(* asn_str_to_vault_str step by step, and its unit test *)

\* BigNum::from_hex_str, as test::hex_str uses it: the value of one digit, the
\* bytes of a digit string (an odd-length string has an implied leading 0),
\* and the number read from an optional '-' and the digits.
HexValue(ch) == CHOOSE v \in 0..15 : HexUpper[v + 1] = ch \/ AsciiLowerChar(HexUpper[v + 1]) = ch

RECURSIVE HexPairsToBytes(_)
HexPairsToBytes(hex) ==
    IF hex = <<>> THEN <<>>
    ELSE <<16 * HexValue(hex[1]) + HexValue(hex[2])>> \o HexPairsToBytes(SubSeq(hex, 3, Len(hex)))

from_hex_str(hex) ==
    LET minus == hex # <<>> /\ hex[1] = "-"
        digits == IF minus THEN Tail(hex) ELSE hex
        mag == StripLeadingZeros(
                   HexPairsToBytes(IF Len(digits) % 2 = 1 THEN <<"0">> \o digits ELSE digits))
    IN [neg |-> minus /\ mag # <<>>, mag |-> mag]

\* two's complement bytes without the leading 255 bytes that carry no value
RECURSIVE StripLeadingOnes(_)
StripLeadingOnes(bs) ==
    IF Len(bs) > 1 /\ bs[1] = 255 /\ bs[2] >= 128 THEN StripLeadingOnes(Tail(bs)) ELSE bs

\* Asn1Integer::from_bn: the content bytes of the INTEGER with the number's
\* value; zero is the single byte 0, a magnitude whose first byte is 128 or
\* more gets a leading 0 byte, a negative number is the two's complement.
Asn1FromBn(bn) ==
    IF bn.mag = <<>> THEN <<0>>
    ELSE IF bn.neg THEN StripLeadingOnes(PlusOne(OnesComplement(<<0>> \o bn.mag)))
    ELSE IF bn.mag[1] >= 128 THEN <<0>> \o bn.mag
    ELSE bn.mag

\* lines 150-152 of test::hex_str
TestHex ==
    <<"4","4","0","E","0","D","9","4","F","3","6","9","6","6","3","9","1","1","1","7",
      "B","C","9","F","8","6","7","D","8","4","F","0","C","4","8","C","F","C","B","7">>
TestExpected ==
    <<"4","4",":","0","e",":","0","d",":","9","4",":","f","3",":","6","9",":","6","6",
      ":","3","9",":","1","1",":","1","7",":","b","c",":","9","f",":","8","6",":","7",
      "d",":","8","4",":","f","0",":","c","4",":","8","c",":","f","c",":","b","7">>
TestInput == Asn1FromBn(from_hex_str(TestHex))

\* The serials the formatter is run on: every byte string of at most
\* MaxSerialBytes bytes over SampleBytes, and the serial of the unit test.
SampleBytes == {0, 10, 79, 188}

RECURSIVE ByteStrings(_)
ByteStrings(n) ==
    IF n = 0 THEN {<<>>}
    ELSE ByteStrings(n - 1)
         \cup {<<b>> \o t : b \in SampleBytes, t \in {u \in ByteStrings(n - 1) : Len(u) = n - 1}}

SerialInputs == ByteStrings(MaxSerialBytes) \cup {TestInput}

InitSerial ==
    /\ s_asn \in SerialInputs
    /\ s_a = <<>>
    /\ s_i = 0
    /\ s_pc = "start"

\* lines 124-132: the lower-case hex rendering, and i = 2
SerialToHex ==
    /\ s_pc = "start"
    /\ s_a' = to_ascii_lowercase(to_hex_str(to_bn(s_asn)))
    /\ s_i' = FirstColon
    /\ s_pc' = "loop"
    /\ UNCHANGED s_asn
    /\ UNCHANGED <<cryptoVars, msgVars>>

\* lines 133-136: one iteration of the loop
SerialInsert ==
    /\ s_pc = "loop"
    /\ s_i < Len(s_a)
    /\ s_a' = InsertStep(s_a, s_i).a
    /\ s_i' = InsertStep(s_a, s_i).i
    /\ UNCHANGED <<s_asn, s_pc>>
    /\ UNCHANGED <<cryptoVars, msgVars>>

\* lines 133, 138: the loop condition fails, Ok(a)
SerialReturn ==
    /\ s_pc = "loop"
    /\ ~(s_i < Len(s_a))
    /\ s_pc' = "done"
    /\ UNCHANGED <<s_asn, s_a, s_i>>
    /\ UNCHANGED <<cryptoVars, msgVars>>

---------------------------------------------------------------------------
(* sockets.rs: MsgSocketRequest<State> and its conversions *)

AppOrProxyIds == {"app1.proxy1.broker", "app2.proxy2.broker"}
ToLists ==
    { <<>>, <<"app1.proxy1.broker">>,
      <<"app1.proxy1.broker", "app2.proxy2.broker">>,
      <<"app2.proxy2.broker", "app1.proxy1.broker">> }
ExpireTimes == {1700000000, 1700003600}
MsgIds == {"id-1", "id-2"}
MetadataValues == {"null", "{\"k\":1}"}
Texts == {"", "hello"}
Blobs == {"blob-a", "blob-b", "blob-c"}

\* The two payload states.  String -> Plain is `body.into()` of line 47.
Plain(text) == [state |-> "Plain", data |-> text]
Encrypted(blob) == [state |-> "Encrypted", data |-> blob]

MsgSocketRequest(from, to, expire, id, secret, metadata) ==
    [from |-> from, to |-> to, expire |-> expire, id |-> id,
     secret |-> secret, metadata |-> metadata]

PlainRequests ==
    { MsgSocketRequest(f, t, e, i, Plain(b), m) :
        f \in AppOrProxyIds, t \in ToLists, e \in ExpireTimes, i \in MsgIds,
        b \in Texts, m \in MetadataValues }

\* mutant: the body is dropped, the secret is an empty text
DecryptConvertSelfDroppingBody(self, body) ==
    MsgSocketRequest(self.from, self.to, self.expire, self.id, Plain(""), self.metadata)

\* mutant: only the first recipient is kept
EncryptConvertSelfFirstRecipient(self, body) ==
    MsgSocketRequest(self.from, IF self.to = <<>> THEN <<>> ELSE <<self.to[1]>>,
                     self.expire, self.id, body, self.metadata)

\* lines 45-48: DecryptableMsg::convert_self(self, body: String)
DecryptConvertSelf(self, body) ==
    MsgSocketRequest(self.from, self.to, self.expire, self.id, Plain(body), self.metadata)

\* lines 54-57: EncryptableMsg::convert_self(self, body: Encrypted)
EncryptConvertSelf(self, body) ==
    MsgSocketRequest(self.from, self.to, self.expire, self.id, body, self.metadata)

\* lines 41-43 and 59-61
get_encryption(self) == Some(self.secret)
get_plain(self) == self.secret

\* lines 64-68
wait_id(self) == self.id

\* The encryption collaborator: an injective map of plaintexts to blobs, and
\* its inverse, which fails (None) on a blob that is no ciphertext.
Ciphers == {f \in [Texts -> Blobs] : \A x, y \in Texts : f[x] = f[y] => x = y}
enc(plain) == Encrypted(cipher[plain.data])
dec(encrypted) ==
    IF \E t \in Texts : cipher[t] = encrypted.data
    THEN Some(CHOOSE t \in Texts : cipher[t] = encrypted.data)
    ELSE None

InitMsg ==
    /\ msg \in PlainRequests
    /\ envs = <<msg>>
    /\ ops = <<>>
    /\ cipher \in Ciphers

Converted(m, op) ==
    /\ msg' = m
    /\ envs' = Append(envs, m)
    /\ ops' = Append(ops, op)
    /\ UNCHANGED <<cipher, cryptoVars, serialVars>>

\* encrypt the payload and convert
Encrypt ==
    /\ Len(ops) < MaxChain
    /\ msg.secret.state = "Plain"
    /\ Converted(EncryptConvertSelf(msg, enc(get_plain(msg))), "encrypt")

\* decrypt the payload and convert; no conversion when decryption fails
Decrypt ==
    /\ Len(ops) < MaxChain
    /\ msg.secret.state = "Encrypted"
    /\ dec(get_encryption(msg)[1]) # None
    /\ Converted(DecryptConvertSelf(msg, dec(get_encryption(msg)[1])[1]), "decrypt")

\* EncryptableMsg::convert_self with any body
EncryptWith ==
    /\ Len(ops) < MaxChain
    /\ msg.secret.state = "Plain"
    /\ \E b \in Blobs : Converted(EncryptConvertSelf(msg, Encrypted(b)), "convert_plain")

\* DecryptableMsg::convert_self with any body
DecryptWith ==
    /\ Len(ops) < MaxChain
    /\ msg.secret.state = "Encrypted"
    /\ \E t \in Texts : Converted(DecryptConvertSelf(msg, t), "convert_encrypted")

---------------------------------------------------------------------------
(* The three specifications *)

\* the values of a machine's variables while another machine runs
IdleCrypto ==
    /\ CONFIG_SHARED_CRYPTO = None
    /\ pc = <<>> /\ cli_args = <<>> /\ privkey_pem = <<>> /\ privkey_rsa = <<>>
    /\ privkey_rs256 = <<>> /\ public = <<>> /\ tried = <<>> /\ lookups = <<>>
    /\ loaded = <<>> /\ result = <<>>
IdleSerial == s_asn = <<>> /\ s_a = <<>> /\ s_i = 0 /\ s_pc = "off"
IdleMsg == msg = <<>> /\ envs = <<>> /\ ops = <<>> /\ cipher = <<>>

Init == InitCrypto /\ IdleSerial /\ IdleMsg

Next ==
    \/ \E c \in Callers : CliParse(c)
    \/ \E c \in Callers : ReadKeyFile(c)
    \/ \E c \in Callers : ParseRsa(c)
    \/ \E c \in Callers : ParseRs256(c)
    \/ \E c \in Callers : RequireProxyId(c)
    \/ \E c \in Callers : Lookup(c)
    \/ \E c \in Callers : ComposeIdentity(c)
    \/ \E c \in Callers : Publish(c)

Spec == Init /\ [][Next]_vars

SerialInit == InitSerial /\ IdleCrypto /\ IdleMsg

SerialNext ==
    \/ SerialToHex
    \/ SerialInsert
    \/ SerialReturn

\* asn_str_to_vault_str is sequential code: a step that can be taken is taken
SpecSerial == SerialInit /\ [][SerialNext]_vars /\ WF_vars(SerialNext)

MsgInit == InitMsg /\ IdleCrypto /\ IdleSerial

MsgNext ==
    \/ Encrypt
    \/ Decrypt
    \/ EncryptWith
    \/ DecryptWith

SpecMsg == MsgInit /\ [][MsgNext]_vars

---------------------------------------------------------------------------
(* Claims about init_crypto_for_proxy and load_crypto_for_proxy (Spec) *)

PanicInitTwice == Panic("Tried to initialize crypto twice (init_crypto())")
PanicNoProxyId == Panic("load_crypto() has been called without setting a Proxy ID")

Started(c) == cli_args[c] # None
KeyFileOf(c) == cli_args[c][1].privkey_file
ProxyIdOf(c) == cli_args[c][1].proxy_id
Finished(c) == pc[c] = "done"

\* the caller's bootstrap succeeded and lines 88-89 gave a serial and a cname:
\* the caller came to the set of line 90
ReachedSet(c) ==
    /\ Finished(c)
    /\ loaded[c].kind = "Ok"
    /\ loaded[c].ok[1].public.cert.subject # <<>>
    /\ loaded[c].ok[1].public.cert.subject[1] # None

\* the directory was asked and answered none
LookupGaveNone(c) == lookups[c] > 0 /\ public[c] = None

\* C1: at most one call of init_crypto_for_proxy ever returns Ok; the slot is
\* empty until then and holds that call's identity ever after; every other
\* call that comes to the set step panics, so of the callers that came to the
\* set step exactly one stored its identity.
C1_PublishOnce ==
    /\ \A c, d \in Callers : result[c].kind = "Ok" /\ result[d].kind = "Ok" => c = d
    /\ CONFIG_SHARED_CRYPTO = None => \A c \in Callers : result[c].kind # "Ok"
    /\ CONFIG_SHARED_CRYPTO # None =>
         \E c \in Callers : result[c].kind = "Ok" /\ loaded[c].ok = CONFIG_SHARED_CRYPTO
    /\ \A c \in Callers : ReachedSet(c) => result[c].kind = "Ok" \/ result[c] = PanicInitTwice
    /\ (\E c \in Callers : ReachedSet(c)) =>
         Cardinality({c \in Callers : ReachedSet(c) /\ result[c].kind = "Ok"}) = 1

\* two callers came to the set step: one returned Ok, the other panicked
C1_Witness ==
    \E c, d \in Callers :
        /\ c # d /\ ReachedSet(c) /\ ReachedSet(d)
        /\ result[c].kind = "Ok" /\ result[d] = PanicInitTwice
        /\ CONFIG_SHARED_CRYPTO = loaded[c].ok

\* C3 as stated: without a proxy id every finished bootstrap ended in a panic
C3_NoProxyIdAlwaysAborts ==
    \A c \in Callers :
        Finished(c) /\ ProxyIdOf(c) = None => loaded[c].kind = "Panic"

\* C3 amended: without a proxy id the bootstrap never returns an identity nor
\* SignEncryptError and never asks the directory; it panics when the key file
\* is readable and both key parses succeed, and returns ConfigurationFailed
\* when the key file is unreadable or a key parse fails.
C3_NoProxyIdOutcome ==
    \A c \in Callers :
        Finished(c) /\ ProxyIdOf(c) = None =>
            /\ lookups[c] = 0
            /\ loaded[c] = result[c]
            /\ IF KeyFileOf(c) # None /\ KeyFileOf(c)[1].enc \in {"pkcs1", "pkcs8"}
               THEN \/ privkey_rs256[c] # None /\ loaded[c] = PanicNoProxyId
                    \/ privkey_rs256[c] = None /\ loaded[c] = Err("ConfigurationFailed")
               ELSE loaded[c] = Err("ConfigurationFailed")

C3_Witness ==
    \E c \in Callers :
        /\ Finished(c) /\ ProxyIdOf(c) = None
        /\ KeyFileOf(c) # None /\ KeyFileOf(c)[1].enc = "pkcs8"
        /\ loaded[c] = PanicNoProxyId

\* C4: a directory lookup that answers none ends the bootstrap with
\* SignEncryptError: no identity is returned, and the caller stores nothing.
C4_LookupNoneIsSignEncryptError ==
    \A c \in Callers :
        LookupGaveNone(c) =>
            /\ Finished(c)
            /\ loaded[c] = Err("SignEncryptError")
            /\ result[c] = Err("SignEncryptError")
            /\ CONFIG_SHARED_CRYPTO # None =>
                 \E d \in Callers \ {c} :
                     result[d].kind = "Ok" /\ loaded[d].ok = CONFIG_SHARED_CRYPTO

C4_Witness ==
    \E c \in Callers :
        LookupGaveNone(c) /\ result[c] = Err("SignEncryptError") /\ CONFIG_SHARED_CRYPTO = None

\* C5: a readable key file that parses in neither encoding ends the bootstrap
\* with ConfigurationFailed, whatever the proxy id: no panic, no other error,
\* no identity, and the directory is never asked.
C5_MalformedKeyIsConfigurationFailed ==
    \A c \in Callers :
        Started(c) /\ KeyFileOf(c) # None /\ KeyFileOf(c)[1].enc \notin {"pkcs1", "pkcs8"} =>
            /\ lookups[c] = 0
            /\ pc[c] \in {"read", "parse_rsa", "done"}
            /\ loaded[c] = result[c]
            /\ IF Finished(c) THEN loaded[c] = Err("ConfigurationFailed")
                              ELSE loaded[c] = Pending

C5_Witness ==
    \E c \in Callers :
        /\ Finished(c) /\ KeyFileOf(c) # None /\ KeyFileOf(c)[1].enc = "garbage"
        /\ ProxyIdOf(c) = None
        /\ result[c] = Err("ConfigurationFailed")

\* the signing key's id is the formatted serial of the identity's certificate
KeyIdMatchesCert(crypto) ==
    crypto.privkey_rs256.key_id = Some(asn_str_to_vault_str(crypto.public.cert.serial))

\* C8: in every identity load_crypto_for_proxy returns, and in the identity the
\* slot holds, the signing key's id is asn_str_to_vault_str of the serial of
\* the certificate of the identity's public portion, which is the directory's
\* answer to that caller.
C8_KeyIdIsFormattedSerial ==
    /\ \A c \in Callers :
         loaded[c].kind = "Ok" =>
             /\ KeyIdMatchesCert(loaded[c].ok[1])
             /\ Some(loaded[c].ok[1].public) = public[c]
    /\ CONFIG_SHARED_CRYPTO # None => KeyIdMatchesCert(CONFIG_SHARED_CRYPTO[1])

C8_Witness ==
    /\ CONFIG_SHARED_CRYPTO # None
    /\ CONFIG_SHARED_CRYPTO[1].public.cert.serial = <<0, 188, 68>>
    /\ CONFIG_SHARED_CRYPTO[1].privkey_rs256.key_id = Some(<<"b", "c", ":", "4", "4">>)

\* load_crypto_for_proxy has returned or panicked
BootstrapEnded(c) == loaded[c].kind # "Pending"

\* bootstraps c and d read the same key, c in PKCS#1 and d in PKCS#8, have
\* the same proxy id, got the same directory answer, and have both ended
SameKeyTwoEncodings(c, d) ==
    /\ BootstrapEnded(c) /\ BootstrapEnded(d)
    /\ KeyFileOf(c) # None /\ KeyFileOf(d) # None
    /\ KeyFileOf(c)[1].enc = "pkcs1" /\ KeyFileOf(d)[1].enc = "pkcs8"
    /\ KeyFileOf(c)[1].key = KeyFileOf(d)[1].key
    /\ ProxyIdOf(c) = ProxyIdOf(d)
    /\ lookups[c] = lookups[d] /\ public[c] = public[d]

FullyConstructed(crypto) ==
    /\ crypto.privkey_rsa \in Keys
    /\ crypto.privkey_rs256.from_pem \in {trim(t) : t \in FileTexts}
    /\ crypto.privkey_rs256.key_id # None
    /\ crypto.public \in CryptoPublicPortion

\* one step, as C10 allows it
C10_SlotStep ==
    /\ CONFIG_SHARED_CRYPTO' # CONFIG_SHARED_CRYPTO =>
         /\ CONFIG_SHARED_CRYPTO = None
         /\ \E c \in Callers :
              /\ pc[c] = "publish" /\ pc'[c] = "done"
              /\ loaded[c].kind = "Ok"
              /\ CONFIG_SHARED_CRYPTO' = loaded[c].ok
              /\ FullyConstructed(loaded[c].ok[1])
    /\ \A c \in Callers :
         loaded[c].kind = "Pending" /\ loaded'[c].kind \in {"Err", "Panic"} =>
             CONFIG_SHARED_CRYPTO' = CONFIG_SHARED_CRYPTO

\* C10: the slot changes only in the set step of a caller whose bootstrap
\* returned an identity, from empty to that identity, fully constructed; the
\* step in which a bootstrap ends in an error or a panic leaves the slot alone.
C10_FailedBootstrapLeavesSlot == [][C10_SlotStep]_vars

\* a bootstrap has failed while the slot holds another caller's identity
C10_Witness ==
    \E c, d \in Callers :
        /\ loaded[c].kind = "Err" /\ result[d].kind = "Ok"
        /\ CONFIG_SHARED_CRYPTO = loaded[d].ok
        /\ FullyConstructed(CONFIG_SHARED_CRYPTO[1])

---------------------------------------------------------------------------
(* Claim about asn_str_to_vault_str (SpecSerial) *)

HexLower == <<"0","1","2","3","4","5","6","7","8","9","a","b","c","d","e","f">>

\* the lower-case form of an upper-case hexadecimal digit
LowerDigit(ch) == HexLower[CHOOSE v \in 1..16 : HexUpper[v] = ch]

\* out is the digits of hex, lower-cased, in groups of two joined by ':'
IsColonGrouped(out, hex) ==
    /\ Len(out) = Len(hex) + (Len(hex) \div 2) - 1
    /\ \A k \in 1..Len(hex) : out[k + ((k - 1) \div 2)] = LowerDigit(hex[k])
    /\ \A j \in 1..((Len(hex) \div 2) - 1) : out[3 * j] = ":"
    /\ out[1] # ":" /\ out[Len(out)] # ":"
    /\ \A k \in 1..(Len(out) - 1) : ~(out[k] = ":" /\ out[k + 1] = ":")

SerialRendering == to_hex_str(to_bn(s_asn))

\* the rendering is hexadecimal digits only, an even number of them, not none
IsEvenDigitString(hex) ==
    /\ hex # <<>>
    /\ Len(hex) % 2 = 0
    /\ \A k \in 1..Len(hex) : \E v \in 1..16 : HexUpper[v] = hex[k]

\* C6: the formatter always returns; for a serial whose hex rendering is an
\* even, non-zero number of digits and nothing else it returns the digits
\* lower-cased in groups of two joined by single ':'; for the serial of
\* test::hex_str it returns the expected string of that test.
C6_SerialFormat ==
    /\ [](s_pc = "done" =>
            /\ IsEvenDigitString(SerialRendering)
                  => IsColonGrouped(s_a, SerialRendering)
            /\ SerialRendering = TestHex => s_a = TestExpected
            /\ s_a = asn_str_to_vault_str(s_asn))
    /\ <>(s_pc = "done")

C6_Witness ==
    /\ s_pc = "done"
    /\ SerialRendering = TestHex
    /\ Len(s_a) = 59
    /\ s_a = TestExpected

---------------------------------------------------------------------------
(* Claims about the envelope conversions (SpecMsg) *)

\* the five fields a conversion is to leave alone
Frame(m) == <<m.from, m.to, m.expire, m.id, m.metadata>>

\* C2: encrypting an envelope's payload and converting, then decrypting the
\* result's payload and converting, gives back the envelope, all six fields.
C2_RoundTrip ==
    \A k \in 1..(Len(ops) - 1) :
        ops[k] = "encrypt" /\ ops[k + 1] = "decrypt" => envs[k + 2] = envs[k]

C2_Witness ==
    /\ Len(ops) >= 2 /\ ops[1] = "encrypt" /\ ops[2] = "decrypt"
    /\ envs[1].secret = Plain("hello")
    /\ envs[1].to = <<"app2.proxy2.broker", "app1.proxy1.broker">>
    /\ envs[2].secret.state = "Encrypted"
    /\ envs[3] = envs[1]

\* C7: every conversion, with whatever body, changes the secret only: from,
\* to, expire, id and metadata of the output are those of the input, and
\* wait_id is the same all along a chain of conversions.
C7_ConversionKeepsFrame ==
    /\ \A k \in 1..Len(ops) :
         /\ Frame(envs[k + 1]) = Frame(envs[k])
         /\ envs[k + 1].secret.state # envs[k].secret.state
    /\ \A k \in 1..Len(envs) : wait_id(envs[k]) = wait_id(envs[1])
    /\ msg = envs[Len(envs)]

C7_Witness ==
    /\ Len(ops) = 3
    /\ ops = <<"convert_plain", "convert_encrypted", "convert_plain">>
    /\ envs[1].to = <<"app1.proxy1.broker", "app2.proxy2.broker">>
    /\ envs[4].secret # envs[2].secret
    /\ Frame(envs[4]) = Frame(envs[1])
    /\ wait_id(msg) = "id-2"

===========================================================================
